---- MODULE Spec2Model ----
(***************************************************************************)
(* Model of pythonx/pudb_and_jam.py: the Vim commands that keep pudb's     *)
(* saved breakpoints and Vim's signs / quickfix lists in step.             *)
(*                                                                         *)
(* The pudb breakpoint store and the Vim host are the two collaborators.   *)
(* The store is a sequence of saved records that load_breakpoints returns  *)
(* in order and save_breakpoints replaces as a whole.  Vim is represented  *)
(* by its buffers (fixed during a run), the signs placed in the plugin's   *)
(* sign group, and what the command that just ran sent to it.              *)
(***************************************************************************)
EXTENDS Integers, Sequences, FiniteSets, TLC

VARIABLES
    store,      \* pudb's saved breakpoints, in the order load_breakpoints yields them
    buffers,    \* Vim: file name -> buffer (loaded or not, and its lines)
    signs,      \* Vim: signs currently placed in g:pudb_sign_group, in placement order
    echomsg,    \* Vim: the :echomsg lines emitted by the command that just ran
    listcmd,    \* Vim: the list command issued by the command that just ran
    checked,    \* linecache: the file names the command that just ran passed to checkcache
    pc,         \* "idle", or "input" while edit() is blocked in input()
    bps,        \* edit(): the local dict bps, as its items in dict order
    bp_key,     \* edit(): the local bp_key
    old_cond,   \* edit(): the local old_cond, the text the prompt is pre-filled with
    last,       \* history: the command that just ran, its cursor key, the store and
                \* the signs before it, and what input() returned to it
    twice       \* history: the store before the previous toggle() when the last two
                \* commands were toggle() at one key, as a one-element tuple

vars == <<store, buffers, signs, echomsg, listcmd, checked, pc, bps, bp_key,
          old_cond, last, twice>>

(***************************************************************************)
(* Bounds and input domains                                                *)
(***************************************************************************)
\* The most breakpoints the store starts with.
MaxInit == 2

\* The store size beyond which toggle() and edit() are not asked to add a
\* breakpoint.
MaxBps == 2

Files == {"/a.py", "/b.py"}
Lines == {10, 20}
\* Conditions found in the store at start; input() adds the empty string.
StoredConds == {<<>>, <<"x>0">>}
\* What the user can type at the prompt (Escape and plain Enter give "").
Inputs == {"", "x>0"}

(***************************************************************************)
(* Values                                                                  *)
(***************************************************************************)
\* Python's None for Breakpoint.cond; a condition string s is <<s>>.
None == <<>>

\* bdb.Breakpoint(file, line, temporary=False, cond=None, funcname=None):
\* the attributes this module reads.
Breakpoint(file, line, cond) == [file |-> file, line |-> line, cond |-> cond]

Key(bp) == <<bp.file, bp.line>>

\* Variant of Truthy: the test written as "bp.cond is not None".
TruthyNotNone(cond) == cond # <<>>

\* Python truthiness of bp.cond: None and '' are false.
Truthy(cond) == cond # None /\ cond[1] # ""

RECURSIVE Join(_, _)
\* sep.join(strs)
Join(sep, strs) ==
    IF strs = <<>> THEN ""
    ELSE IF Len(strs) = 1 THEN strs[1]
    ELSE strs[1] \o sep \o Join(sep, Tail(strs))

\* A buffer line is kept as its characters so that str.strip() can be computed.
Whitespace == {" ", "\t"}

RECURSIVE lstrip(_)
lstrip(chars) ==
    IF chars # <<>> /\ chars[1] \in Whitespace THEN lstrip(Tail(chars)) ELSE chars

RECURSIVE rstrip(_)
rstrip(chars) ==
    IF chars # <<>> /\ chars[Len(chars)] \in Whitespace
    THEN rstrip(SubSeq(chars, 1, Len(chars) - 1))
    ELSE chars

strip(chars) == rstrip(lstrip(chars))

\* The Python string made of the characters.
Str(chars) == Join("", chars)

(***************************************************************************)
(* Vim buffers                                                             *)
(***************************************************************************)
NotLoaded == [loaded |-> FALSE, lines |-> <<>>]

Code == <<"x", " ", "=", " ", "1">>

\* Twelve lines: line 10 holds code, line 20 is beyond the end.
BufShort ==
    [loaded |-> TRUE, lines |-> [i \in 1..12 |-> IF i = 10 THEN Code ELSE <<>>]]

\* Twenty lines: line 10 is empty, line 20 holds only blanks.
BufBlank ==
    [loaded |-> TRUE,
     lines |-> [i \in 1..20 |-> IF i = 20 THEN <<" ", "\t">> ELSE
                                IF i = 10 THEN <<>> ELSE Code]]

\* What Vim has loaded: every kind of buffer for every file, and a file
\* without a buffer both before and after one that has a buffer.
BufferStates ==
    { [f \in Files |-> IF f = "/a.py" THEN NotLoaded ELSE BufBlank],
      [f \in Files |-> IF f = "/a.py" THEN BufShort ELSE NotLoaded],
      [f \in Files |-> IF f = "/a.py" THEN BufBlank ELSE BufShort] }

\* getbufline(file, lnum): a list with the line, or the empty list when the
\* buffer is not loaded or lnum is outside it.
getbufline(file, lnum) ==
    IF buffers[file].loaded /\ lnum \in 1..Len(buffers[file].lines)
    THEN <<buffers[file].lines[lnum]>>
    ELSE <<>>

(***************************************************************************)
(* The breakpoint store                                                    *)
(***************************************************************************)
\* pudb.settings.load_breakpoints(*LOAD_ARGS): the saved records, in order.
load_breakpoints(s) == s

\* pudb.settings.save_breakpoints(bp_list): the store becomes bp_list.
save_breakpoints(bp_list) == bp_list

\* breakpoints(): one Breakpoint per saved record.
breakpoints(s) ==
    [i \in 1..Len(load_breakpoints(s)) |->
        Breakpoint(load_breakpoints(s)[i].file,
                   load_breakpoints(s)[i].line,
                   load_breakpoints(s)[i].cond)]

(***************************************************************************)
(* Python dicts keyed by (file, line), as their items in insertion order   *)
(***************************************************************************)
Keys(d) == {Key(d[i]) : i \in 1..Len(d)}

\* d[k]
DictGet(d, k) == d[CHOOSE i \in 1..Len(d) : Key(d[i]) = k]

\* d[Key(bp)] = bp: an existing key keeps its position, a new key goes last.
DictSet(d, bp) ==
    IF Key(bp) \in Keys(d)
    THEN [i \in 1..Len(d) |-> IF Key(d[i]) = Key(bp) THEN bp ELSE d[i]]
    ELSE Append(d, bp)

\* Variant of DictPop: the entry is matched on the file name alone.
DictPopFile(d, k) == SelectSeq(d, LAMBDA bp : bp.file # k[1])

\* d.pop(k)
DictPop(d, k) == SelectSeq(d, LAMBDA bp : Key(bp) # k)

RECURSIVE DictFrom(_, _)
\* {(bp.file, bp.line): bp for bp in bs}, continued from d.
DictFrom(d, bs) ==
    IF bs = <<>> THEN d ELSE DictFrom(DictSet(d, Head(bs)), Tail(bs))

\* breakpoint_dict()
breakpoint_dict(s) == DictFrom(<<>>, breakpoints(s))

\* Breakpoint(*bp_key)
NewBreakpoint(k) == Breakpoint(k[1], k[2], None)

(***************************************************************************)
(* breakpoint_strings()                                                    *)
(***************************************************************************)
\* '{file}:{line:d}:{cond}'.format(..., cond=bp.cond if bp.cond else ' ')
FormatBreakpoint(bp) ==
    bp.file \o ":" \o ToString(bp.line) \o ":"
        \o (IF Truthy(bp.cond) THEN bp.cond[1] ELSE " ")

breakpoint_strings(s) ==
    [i \in 1..Len(breakpoints(s)) |-> FormatBreakpoint(breakpoints(s)[i])]

(***************************************************************************)
(* update(): signs                                                         *)
(***************************************************************************)
Sign(file, lnum) == [name |-> "PudbBreakPoint", file |-> file, lnum |-> lnum]

\* call sign_unplace(g:pudb_sign_group): no sign of the group is left.
sign_unplace(sg) == <<>>

\* sign_place(...) raises vim.error when the file has no loaded buffer.
SignPlaceFails(file) == ~buffers[file].loaded

\* One pass of the loop body: place the sign, or continue on vim.error.
PlaceOne(sg, bp) ==
    IF SignPlaceFails(bp.file) THEN sg ELSE Append(sg, Sign(bp.file, bp.line))

RECURSIVE PlaceAllStop(_, _)
\* Variant of PlaceAll: the try wraps the loop, so the first vim.error ends it.
PlaceAllStop(sg, bs) ==
    IF bs = <<>> THEN sg
    ELSE IF SignPlaceFails(Head(bs).file) THEN sg
    ELSE PlaceAllStop(Append(sg, Sign(Head(bs).file, Head(bs).line)), Tail(bs))

RECURSIVE PlaceAll(_, _)
\* for bp in breakpoints(): ...
PlaceAll(sg, bs) ==
    IF bs = <<>> THEN sg ELSE PlaceAll(PlaceOne(sg, Head(bs)), Tail(bs))

\* update(): the signs afterwards, from the signs before and the store.
update(sg, s) == PlaceAll(sign_unplace(sg), breakpoints(s))

(***************************************************************************)
(* populateList(): one quickfix line per breakpoint                        *)
(***************************************************************************)
\* Variant of LineText: the line is compared with '' without strip().
LineTextNoStrip(bp) ==
    IF getbufline(bp.file, bp.line) = <<>>
    THEN "<buffer not loaded>"
    ELSE IF getbufline(bp.file, bp.line)[1] = <<>>
         THEN "<blank line>"
         ELSE Str(getbufline(bp.file, bp.line)[1])

\* The try/except of the loop body: the text shown for the breakpoint.
LineText(bp) ==
    IF getbufline(bp.file, bp.line) = <<>>
    THEN "<buffer not loaded>"                       \* [0] raises IndexError
    ELSE IF strip(getbufline(bp.file, bp.line)[1]) = <<>>
         THEN "<blank line>"
         ELSE Str(getbufline(bp.file, bp.line)[1])

\* ':'.join(map(str, [bp.file, bp.line, line]))
QfEntry(bp) == Join(":", <<bp.file, ToString(bp.line), LineText(bp)>>)

qflist(s) == [i \in 1..Len(breakpoints(s)) |-> QfEntry(breakpoints(s)[i])]

NoCmd == [cmd |-> "", list |-> <<>>]

(***************************************************************************)
(* Initial states                                                          *)
(***************************************************************************)
SeqsUpTo(S, n) == UNION {[1..m -> S] : m \in 0..n}

Records == {Breakpoint(f, l, c) : f \in Files, l \in Lines, c \in StoredConds}

UniqueKeys(s) == \A i, j \in 1..Len(s) : Key(s[i]) = Key(s[j]) => i = j

\* current_position(): any file and line the cursor can be on.
current_position == Files \X Lines

NoKey == <<>>

\* No command has run yet.
Started(s, sg) ==
    [op |-> "", key |-> NoKey, before |-> s, signs |-> sg, input |-> None]

InitRest ==
    /\ buffers \in BufferStates
    /\ signs \in {<<>>, <<Sign("/a.py", 20)>>}
    /\ echomsg = <<>>
    /\ listcmd = NoCmd
    /\ checked = {}
    /\ pc = "idle"
    /\ bps = <<>>
    /\ bp_key = NoKey
    /\ old_cond = ""
    /\ last = Started(store, signs)
    /\ twice = <<>>

\* The store starts with at most one breakpoint per (file, line).
Init ==
    /\ store \in {s \in SeqsUpTo(Records, MaxInit) : UniqueKeys(s)}
    /\ InitRest

\* The store starts with any records, several on one line included.
InitAny ==
    /\ store \in SeqsUpTo(Records, MaxInit)
    /\ InitRest

(***************************************************************************)
(* The commands                                                            *)
(***************************************************************************)
Ran(op, k, c) ==
    [op |-> op, key |-> k, before |-> store, signs |-> signs, input |-> c]

NoLocals == bps' = <<>> /\ bp_key' = NoKey /\ old_cond' = ""

\* Variant of Toggled: the new breakpoint is added without looking k up.
ToggledNoLookup(d, k) == Append(d, NewBreakpoint(k))

\* Variant of Toggled: only the new breakpoint is handed to save_breakpoints.
ToggledSavesOnlyNew(d, k) ==
    IF k \in Keys(d) THEN DictPop(d, k) ELSE <<NewBreakpoint(k)>>

\* The dict toggle() saves for cursor key k.
Toggled(d, k) ==
    IF k \in Keys(d) THEN DictPop(d, k) ELSE DictSet(d, NewBreakpoint(k))

toggle ==
    \E k \in current_position :
        /\ pc = "idle"
        /\ k \in Keys(breakpoint_dict(store)) \/ Len(breakpoint_dict(store)) < MaxBps
        /\ store' = save_breakpoints(Toggled(breakpoint_dict(store), k))
        /\ signs' = update(signs, store')
        /\ echomsg' = <<>> /\ listcmd' = NoCmd /\ checked' = {}
        /\ last' = Ran("toggle", k, None)
        /\ twice' = IF last.op = "toggle" /\ last.key = k
                    THEN <<last.before>> ELSE <<>>
        /\ NoLocals
        /\ UNCHANGED <<buffers, pc>>

\* Variant of Loaded: a fresh Breakpoint is stored at k whether or not one exists.
LoadedAlways(d, k) == DictSet(d, NewBreakpoint(k))

\* The dict edit() holds for cursor key k when it prompts.
Loaded(d, k) == IF k \notin Keys(d) THEN DictSet(d, NewBreakpoint(k)) ELSE d

\* Variant of edit_prompt: the set is saved as soon as the breakpoint is created.
edit_prompt_saves ==
    \E k \in current_position :
        /\ pc = "idle"
        /\ k \in Keys(breakpoint_dict(store)) \/ Len(breakpoint_dict(store)) < MaxBps
        /\ bps' = Loaded(breakpoint_dict(store), k)
        /\ store' = save_breakpoints(bps')
        /\ bp_key' = k
        /\ old_cond' = IF DictGet(bps', k).cond = None
                       THEN "" ELSE DictGet(bps', k).cond[1]
        /\ pc' = "input"
        /\ echomsg' = <<>> /\ listcmd' = NoCmd /\ checked' = {}
        /\ last' = Ran("edit", k, None)
        /\ twice' = <<>>
        /\ UNCHANGED <<buffers, signs>>

\* edit(), up to the call of input() that waits for the user.
edit_prompt ==
    \E k \in current_position :
        /\ pc = "idle"
        /\ k \in Keys(breakpoint_dict(store)) \/ Len(breakpoint_dict(store)) < MaxBps
        /\ bps' = Loaded(breakpoint_dict(store), k)
        /\ bp_key' = k
        /\ old_cond' = IF DictGet(bps', k).cond = None
                       THEN "" ELSE DictGet(bps', k).cond[1]
        /\ pc' = "input"
        /\ echomsg' = <<>> /\ listcmd' = NoCmd /\ checked' = {}
        /\ last' = Ran("edit", k, None)
        /\ twice' = <<>>
        /\ UNCHANGED <<store, buffers, signs>>

\* bp.cond = <what input() returned>, on the bp that is bps[bp_key].
WithCond(d, k, c) ==
    [i \in 1..Len(d) |-> IF Key(d[i]) = k THEN [d[i] EXCEPT !.cond = <<c>>] ELSE d[i]]

\* edit(), from the return of input() to the end.
edit_input ==
    \E c \in Inputs :
        /\ pc = "input"
        /\ store' = save_breakpoints(WithCond(bps, bp_key, c))
        /\ signs' = update(signs, store')
        /\ pc' = "idle"
        /\ last' = [last EXCEPT !.input = <<c>>]
        /\ NoLocals
        /\ UNCHANGED <<buffers, echomsg, listcmd, checked, twice>>

\* Variant of clearAll: update() is called but nothing is saved.
clearAll_unsaved ==
    /\ pc = "idle"
    /\ signs' = update(signs, store)
    /\ echomsg' = <<>> /\ listcmd' = NoCmd /\ checked' = {}
    /\ last' = Ran("clearAll", NoKey, None)
    /\ twice' = <<>>
    /\ NoLocals
    /\ UNCHANGED <<store, buffers, pc>>

clearAll ==
    /\ pc = "idle"
    /\ store' = save_breakpoints(<<>>)
    /\ signs' = update(signs, store')
    /\ echomsg' = <<>> /\ listcmd' = NoCmd /\ checked' = {}
    /\ last' = Ran("clearAll", NoKey, None)
    /\ twice' = <<>>
    /\ NoLocals
    /\ UNCHANGED <<buffers, pc>>

\* update() run as a command of its own.
update_signs ==
    /\ pc = "idle"
    /\ signs' = update(signs, store)
    /\ echomsg' = <<>> /\ listcmd' = NoCmd /\ checked' = {}
    /\ last' = Ran("update", NoKey, None)
    /\ twice' = <<>>
    /\ NoLocals
    /\ UNCHANGED <<store, buffers, pc>>

list_breakpoints ==
    /\ pc = "idle"
    /\ signs' = update(signs, store)
    /\ echomsg' = <<"Listing all pudb breakpoints:">> \o breakpoint_strings(store)
    /\ listcmd' = NoCmd /\ checked' = {}
    /\ last' = Ran("list_breakpoints", NoKey, None)
    /\ twice' = <<>>
    /\ NoLocals
    /\ UNCHANGED <<store, buffers, pc>>

populateList(list_command) ==
    /\ pc = "idle"
    /\ signs' = update(signs, store)
    /\ listcmd' = [cmd |-> list_command, list |-> qflist(store)]
    /\ echomsg' = <<>> /\ checked' = {}
    /\ last' = Ran(list_command, NoKey, None)
    /\ twice' = <<>>
    /\ NoLocals
    /\ UNCHANGED <<store, buffers, pc>>

quickfixList == populateList("cgetexpr")

locationList == populateList("lgetexpr")

\* Variant of clearLineCache: the breakpoints of the file are cleared with its cache.
clearLineCache_clears ==
    \E filename \in Files :
        /\ pc = "idle"
        /\ checked' = {filename}
        /\ store' = save_breakpoints(SelectSeq(breakpoints(store),
                                               LAMBDA bp : bp.file # filename))
        /\ signs' = update(signs, store')
        /\ echomsg' = <<>> /\ listcmd' = NoCmd
        /\ last' = Ran("clearLineCache", <<filename>>, None)
        /\ twice' = <<>>
        /\ NoLocals
        /\ UNCHANGED <<buffers, pc>>

clearLineCache ==
    \E filename \in Files :
        /\ pc = "idle"
        /\ checked' = {filename}
        /\ signs' = update(signs, store)
        /\ echomsg' = <<>> /\ listcmd' = NoCmd
        /\ last' = Ran("clearLineCache", <<filename>>, None)
        /\ twice' = <<>>
        /\ NoLocals
        /\ UNCHANGED <<store, buffers, pc>>

Next ==
    \/ toggle
    \/ edit_prompt
    \/ edit_input
    \/ clearAll
    \/ update_signs
    \/ list_breakpoints
    \/ quickfixList
    \/ locationList
    \/ clearLineCache

Spec == Init /\ [][Next]_vars

SpecAny == InitAny /\ [][Next]_vars

(***************************************************************************)
(* Properties                                                              *)
(***************************************************************************)
BpSet(s) == {s[i] : i \in 1..Len(s)}

KeysOf(s) == {<<s[i].file, s[i].line>> : i \in 1..Len(s)}

At(s, k) == {bp \in BpSet(s) : <<bp.file, bp.line>> = k}

\* The record of s for key k that comes last in s.
LastAt(s, k) ==
    s[CHOOSE i \in 1..Len(s) :
        /\ <<s[i].file, s[i].line>> = k
        /\ \A j \in 1..Len(s) : <<s[j].file, s[j].line>> = k => j <= i]

Unconditional(k) == [file |-> k[1], line |-> k[2], cond |-> <<>>]

HasBuffer(file) == buffers[file].loaded

\* C1 as stated: after toggle() twice in a row at one key, from a store with
\* unique keys, the store holds exactly the original breakpoints, conditions
\* included.
C1_ToggleTwiceRestoresSet ==
    (twice # <<>> /\ UniqueKeys(twice[1])) => BpSet(store) = BpSet(twice[1])

\* C1 amended: after toggle() twice in a row at key k, from a store with
\* unique keys, the store holds the original keys, every breakpoint at another
\* key is unchanged, and a breakpoint at k is back without a condition: the
\* original set is restored exactly when k had no breakpoint or an
\* unconditional one.
C1_ToggleTwiceRestoresKeys ==
    (twice # <<>> /\ UniqueKeys(twice[1])) =>
        /\ UniqueKeys(store)
        /\ KeysOf(store) = KeysOf(twice[1])
        /\ BpSet(store) \ At(store, last.key) = BpSet(twice[1]) \ At(twice[1], last.key)
        /\ last.key \in KeysOf(twice[1]) => At(store, last.key) = {Unconditional(last.key)}
        /\ At(twice[1], last.key) \subseteq {Unconditional(last.key)}
               <=> BpSet(store) = BpSet(twice[1])

C1_Witness ==
    /\ twice # <<>>
    /\ Len(twice[1]) >= 2
    /\ UniqueKeys(twice[1])
    /\ \E bp \in At(twice[1], last.key) : bp.cond = <<"x>0">>

\* C2: after clearAll(), from any store (duplicate keys included),
\* breakpoint_dict() is the empty mapping.
C2_ClearAllEmpties ==
    (last.op = "clearAll") =>
        /\ breakpoint_dict(store) = <<>>
        /\ Keys(breakpoint_dict(store)) = {}

C2_Witness ==
    /\ last.op = "clearAll"
    /\ ~UniqueKeys(last.before)
    /\ \E bp \in BpSet(last.before) : bp.cond # <<>>

\* C3: from a store with unique keys, after every step of every sequence of
\* commands the store holds at most one breakpoint per (file, line).
C3_UniqueKeys ==
    \A i, j \in 1..Len(store) :
        (store[i].file = store[j].file /\ store[i].line = store[j].line) => i = j

C3_Witness ==
    /\ last.op \in {"toggle", "edit"}
    /\ pc = "idle"
    /\ last.key \notin KeysOf(last.before)
    /\ Len(store) = MaxBps

\* What toggle() does at its own key k: a stored k is removed, an absent k
\* gets one unconditional breakpoint.
ToggledAtKey ==
    /\ last.key \in KeysOf(last.before) => At(store, last.key) = {}
    /\ last.key \notin KeysOf(last.before) =>
           /\ At(store, last.key) = {Unconditional(last.key)}
           /\ Cardinality({i \in 1..Len(store) : <<store[i].file, store[i].line>> = last.key}) = 1

C5_EditCreatesOne ==
    (pc = "input") =>
        /\ KeysOf(bps) = KeysOf(store) \cup {bp_key}
        /\ Len(bps) = Cardinality(KeysOf(bps))
        /\ \A k \in KeysOf(store) \ {bp_key} : At(bps, k) = {LastAt(store, k)}
        /\ IF bp_key \notin KeysOf(store)
           THEN /\ At(bps, bp_key) = {Unconditional(bp_key)}
                /\ Len(bps) = Cardinality(KeysOf(store)) + 1
                /\ old_cond = ""
           ELSE /\ At(bps, bp_key) = {LastAt(store, bp_key)}
                /\ Len(bps) = Cardinality(KeysOf(store))

C5_Witness ==
    /\ pc = "input"
    /\ bp_key \notin KeysOf(store)
    /\ Len(store) >= 1
    /\ old_cond = ""

\* The text C6 gives for a breakpoint.
DisplayString(bp) ==
    bp.file \o ":" \o ToString(bp.line) \o ":"
        \o (IF bp.cond = <<>> \/ bp.cond = <<"">> THEN " " ELSE bp.cond[1])

\* C6: breakpoint_strings() yields one string per stored breakpoint, in store
\* order, file:line:condition with a single space for an absent or empty
\* condition; list_breakpoints() emits them after its header.
C6_DisplayStrings ==
    /\ Len(breakpoint_strings(store)) = Len(store)
    /\ \A i \in 1..Len(store) : breakpoint_strings(store)[i] = DisplayString(store[i])
    /\ store = <<[file |-> "/a.py", line |-> 10, cond |-> <<>>],
                 [file |-> "/a.py", line |-> 20, cond |-> <<"x>0">>]>>
           => breakpoint_strings(store) = <<"/a.py:10: ", "/a.py:20:x>0">>
    /\ last.op = "list_breakpoints" =>
           /\ Len(echomsg) = Len(store) + 1
           /\ \A i \in 1..Len(store) : echomsg[i + 1] = DisplayString(store[i])

C6_Witness ==
    /\ last.op = "list_breakpoints"
    /\ {store[i].cond : i \in 1..Len(store)} = {<<"">>, <<"x>0">>}
    /\ echomsg = <<"Listing all pudb breakpoints:", "/a.py:10: ", "/a.py:20:x>0">>

\* C7: when update() has run, the signs placed are exactly the (file, line) of
\* the stored breakpoints whose file has a loaded buffer, one per such
\* breakpoint: none is left from before and none is missing after a failure.
C7_SignsMatchLoaded ==
    (pc = "idle" /\ last.op # "") =>
        /\ {<<signs[i].file, signs[i].lnum>> : i \in 1..Len(signs)}
               = {<<bp.file, bp.line>> : bp \in {b \in BpSet(store) : HasBuffer(b.file)}}
        /\ Len(signs) = Cardinality({i \in 1..Len(store) : HasBuffer(store[i].file)})
        /\ \A i \in 1..Len(signs) : signs[i].name = "PudbBreakPoint"

C7_Witness ==
    /\ pc = "idle"
    /\ last.op = "update"
    /\ \E i \in 1..Len(last.signs) :
           <<last.signs[i].file, last.signs[i].lnum>> \notin KeysOf(store)
    /\ \E i, j \in 1..Len(store) :
           i < j /\ ~HasBuffer(store[i].file) /\ HasBuffer(store[j].file)
    /\ signs # <<>>

\* The text C8 gives for a breakpoint's line.
ListText(bp) ==
    IF ~HasBuffer(bp.file) \/ bp.line > Len(buffers[bp.file].lines)
    THEN "<buffer not loaded>"
    ELSE IF \A n \in 1..Len(buffers[bp.file].lines[bp.line]) :
                buffers[bp.file].lines[bp.line][n] \in {" ", "\t"}
         THEN "<blank line>"
         ELSE Str(buffers[bp.file].lines[bp.line])

\* C8: populateList(cmd) hands cmd one entry file:line:text per stored
\* breakpoint, in store order, text being <buffer not loaded>, <blank line> or
\* the line itself; a failed lookup drops no breakpoint.
C8_ListEntries ==
    (last.op \in {"cgetexpr", "lgetexpr"}) =>
        /\ listcmd.cmd = last.op
        /\ Len(listcmd.list) = Len(store)
        /\ \A i \in 1..Len(store) :
               listcmd.list[i] = store[i].file \o ":" \o ToString(store[i].line)
                                     \o ":" \o ListText(store[i])
        /\ \A i \in 1..Len(store) :
               (store[i].file = "/a.py" /\ store[i].line = 10 /\ ~HasBuffer("/a.py"))
                   => listcmd.list[i] = "/a.py:10:<buffer not loaded>"

C8_Witness ==
    /\ last.op = "cgetexpr"
    /\ listcmd.list = <<"/b.py:10:<buffer not loaded>", "/a.py:10:x = 1">>

\* C9: while edit() waits in input() the store is what it was when edit()
\* started; when input() has returned the store holds the loaded set with the
\* breakpoint at the cursor key carrying the entered condition and every other
\* breakpoint unchanged, and the signs are refreshed.
C9_EditSavesAfterPrompt ==
    /\ pc = "input" => (last.op = "edit" /\ store = last.before)
    /\ (pc = "idle" /\ last.op = "edit") =>
           /\ UniqueKeys(store)
           /\ KeysOf(store) = KeysOf(last.before) \cup {last.key}
           /\ At(store, last.key) =
                  {[file |-> last.key[1], line |-> last.key[2], cond |-> last.input]}
           /\ last.input # <<>>
           /\ \A k \in KeysOf(store) \ {last.key} :
                  At(store, k) = {LastAt(last.before, k)}
           /\ {<<signs[i].file, signs[i].lnum>> : i \in 1..Len(signs)}
                  = {<<bp.file, bp.line>> : bp \in {b \in BpSet(store) : HasBuffer(b.file)}}

C9_Witness ==
    /\ pc = "idle"
    /\ last.op = "edit"
    /\ last.key \notin KeysOf(last.before)
    /\ last.input = <<"x>0">>
    /\ Len(last.before) >= 1
    /\ HasBuffer(last.key[1])

\* C10: update(), list_breakpoints(), populateList() through quickfixList()
\* and locationList(), and clearLineCache() leave the store as it was; the
\* store differs from what it was only after toggle(), edit() or clearAll().
C10_ReadOnlyCommands ==
    /\ last.op \in {"update", "list_breakpoints", "cgetexpr", "lgetexpr", "clearLineCache"}
           => store = last.before
    /\ store # last.before => last.op \in {"toggle", "edit", "clearAll"}

C10_Witness ==
    /\ last.op = "clearLineCache"
    /\ Len(store) >= 2
    /\ signs # last.signs
    /\ checked # {}

====
